---- MODULE Spec2Model ----
(***************************************************************************)
(* Model of wootMath/vector.py: the Vector class, its constructor and its  *)
(* methods.                                                                *)
(*                                                                         *)
(* Numbers.  A Python number is modelled by its real value, kept exactly   *)
(* as (n/d)*sqrt(r) with n/d in lowest terms and r squarefree, together    *)
(* with a flag ex telling whether the float the interpreter holds is known *)
(* to equal that real value (IEEE operations are correctly rounded, so a   *)
(* result is exact when its operands are and its value is a small dyadic   *)
(* rational).  Where the code compares a float against an exact boundary   *)
(* (acos at +-1) an inexact value may have been rounded to the boundary,   *)
(* below it or above it: that outcome is an input of the operation.        *)
(* The only non-number that reaches the arithmetic is the str '0' that     *)
(* cross() appends; a str is kept as its sequence of characters.           *)
(***************************************************************************)
EXTENDS Integers, Sequences, FiniteSets, TLC

VARIABLES self, v, result

vars == <<self, v, result>>

\* ------------------------------------------------------------------ bounds
\* the coordinate sequences tried: those of at most MaxDim integers whose
\* absolute values sum to at most MaxWeight, and the Examples below
MaxDim == 3
MaxWeight == 1

\* ------------------------------------------------- exceptions and outcomes
Raise(type, msg) == [kind |-> "error", type |-> type, msg |-> msg]
IsErr(o) == o.kind = "error"
Returns(kind, val) == [kind |-> kind, val |-> val]

\* class constants, vector.py lines 7-10
CANNOT_NORMALIZE_ZERO_VECTOR_MSG == "Cannot normalize the zero vector"
NO_UNIQUE_PARALLEL_COMPONENT_MSG == "No unique parallel component"
NO_UNIQUE_ORTHOGONAL_COMPONENT_MSG == "No unique orthogonal component"
ONLY_DEFINED_IN_TWO_THREE_DIMS_MSG == "Only two or three dimensional vectors can be processed"

\* Python evaluates an expression once and passes its value on.  Only({e : x
\* \in {a}}) is e with x bound to the value of a, evaluated once.
Only(S) == CHOOSE x \in S : TRUE

\* ------------------------------------------------------------ real numbers
Abs(i) == IF i < 0 THEN -i ELSE i

RECURSIVE Gcd(_, _)
Gcd(a, b) == IF b = 0 THEN Abs(a) ELSE Gcd(b, a % b)

\* the largest k with k*k <= m, searched upwards from k
RECURSIVE RootFloor(_, _)
RootFloor(m, k) == IF (k + 1) * (k + 1) > m THEN k ELSE RootFloor(m, k + 1)

\* the largest j <= k with j*j dividing m
RECURSIVE SquarePartFrom(_, _)
SquarePartFrom(m, k) ==
    IF k <= 1 THEN 1
    ELSE IF m % (k * k) = 0 THEN k
    ELSE SquarePartFrom(m, k - 1)

\* the largest k with k*k dividing m (m >= 1)
SquarePart(m) == Only({SquarePartFrom(m, k) : k \in {RootFloor(m, 1)}})

IsPow2(d) == d \in {1, 2, 4, 8, 16, 32, 64, 128, 256, 512, 1024}

\* (n/d)*sqrt(r) in normal form; d > 0 and r >= 1 on entry
MkNum(n, d, r, ex) ==
    IF n = 0 THEN [kind |-> "num", n |-> 0, d |-> 1, r |-> 1, ex |-> ex]
    ELSE Only({ Only({ [kind |-> "num", n |-> (n * k) \div g, d |-> d \div g,
                        r |-> r \div (k * k), ex |-> ex]
                       : g \in {Gcd(n * k, d)} })
                : k \in {SquarePart(r)} })

IntVal(i) == MkNum(i, 1, 1, TRUE)
IsNum(x) == x.kind = "num"
IsStr(x) == x.kind = "str"
Str(chars) == [kind |-> "str", s |-> chars]

\* a float result is known exact when the operands were and the value is a
\* dyadic rational
Exact(x, opsExact) == opsExact /\ x.r = 1 /\ IsPow2(x.d)
Rounded(num, opsExact) == Only({[x EXCEPT !.ex = Exact(x, opsExact)] : x \in {num}})

\* the real value of two numbers agrees (the ex flag is not part of the value)
SameValue(x, y) == x.n = y.n /\ x.d = y.d /\ x.r = y.r
IsZeroNum(x) == x.n = 0

\* a sum of two different surds has no normal form; the code never forms one
\* from rational inputs (NumbersRepresentable checks it)
NotRepresentable == [kind |-> "num", n |-> 0, d |-> 0, r |-> 0, ex |-> FALSE]

NumMul(x, y) ==
    IF (IsZeroNum(x) /\ x.ex) \/ (IsZeroNum(y) /\ y.ex) THEN IntVal(0)
    ELSE Rounded(MkNum(x.n * y.n, x.d * y.d, x.r * y.r, TRUE), x.ex /\ y.ex)

NumAdd(x, y) ==
    IF x.d = 0 \/ y.d = 0 THEN NotRepresentable
    ELSE IF IsZeroNum(x) THEN Rounded(y, x.ex /\ y.ex)
    ELSE IF IsZeroNum(y) THEN Rounded(x, x.ex /\ y.ex)
    ELSE IF x.r = y.r
         THEN Rounded(MkNum(x.n * y.d + y.n * x.d, x.d * y.d, x.r, TRUE),
                      x.ex /\ y.ex)
    ELSE NotRepresentable

NumNeg(x) == [x EXCEPT !.n = -x.n]
NumSub(x, y) == NumAdd(x, NumNeg(y))

\* 1/((n/d)*sqrt(r)) = d*sqrt(r)/(n*r), for x # 0
NumInv(x) ==
    Rounded(MkNum(IF x.n < 0 THEN -x.d ELSE x.d, Abs(x.n) * x.r, x.r, TRUE), x.ex)

\* sqrt(n/d) = sqrt(n*d)/d, for a rational x >= 0
NumSqrt(x) ==
    IF x.r # 1 \/ x.d = 0 THEN NotRepresentable
    ELSE IF IsZeroNum(x) THEN Rounded(x, x.ex)
    ELSE Rounded(MkNum(1, x.d, x.n * x.d, TRUE), x.ex)

NumAbs(x) == [x EXCEPT !.n = Abs(x.n)]

\* floor(a / 10^k)
RECURSIVE DivPow10(_, _)
DivPow10(a, k) == IF k = 0 \/ a = 0 THEN a ELSE DivPow10(a \div 10, k - 1)

\* x < 10^(-k):  x <= 0, or (n*n*r) * 10^(2k) < d*d
LessThanPow10(x, k) ==
    \/ x.n <= 0
    \/ DivPow10(x.d * x.d - 1, 2 * k) >= x.n * x.n * x.r

\* |x| compared with 1:  n*n*r against d*d
AbsIsOne(x) == x.n * x.n * x.r = x.d * x.d
AbsAboveOne(x) == x.n * x.n * x.r > x.d * x.d

\* ------------------------------------------------ Python operators on values
RECURSIVE Repeat(_, _)
Repeat(chars, k) == IF k <= 0 THEN <<>> ELSE chars \o Repeat(chars, k - 1)

IsPyInt(x) == IsNum(x) /\ x.d = 1 /\ x.r = 1 /\ x.ex

\* a * b
PyMul(a, b) ==
    Only({ IF IsErr(x) THEN x
           ELSE IF IsErr(y) THEN y
           ELSE IF IsNum(x) /\ IsNum(y) THEN NumMul(x, y)
           ELSE IF IsStr(x) /\ IsPyInt(y) THEN Str(Repeat(x.s, y.n))
           ELSE IF IsPyInt(x) /\ IsStr(y) THEN Str(Repeat(y.s, x.n))
           ELSE Raise("TypeError", "can't multiply sequence by non-int")
           : x \in {a}, y \in {b} })

\* a + b
PyAdd(a, b) ==
    Only({ IF IsErr(x) THEN x
           ELSE IF IsErr(y) THEN y
           ELSE IF IsNum(x) /\ IsNum(y) THEN NumAdd(x, y)
           ELSE IF IsStr(x) /\ IsStr(y) THEN Str(x.s \o y.s)
           ELSE Raise("TypeError", "unsupported operand type(s) for +")
           : x \in {a}, y \in {b} })

\* a - b
PySub(a, b) ==
    Only({ IF IsErr(x) THEN x
           ELSE IF IsErr(y) THEN y
           ELSE IF IsNum(x) /\ IsNum(y) THEN NumSub(x, y)
           ELSE Raise("TypeError", "unsupported operand type(s) for -")
           : x \in {a}, y \in {b} })

\* -a
PyNeg(a) ==
    Only({ IF IsErr(x) THEN x
           ELSE IF IsNum(x) THEN NumNeg(x)
           ELSE Raise("TypeError", "bad operand type for unary -")
           : x \in {a} })

\* a ** 2
PySquare(a) ==
    Only({ IF IsErr(x) THEN x
           ELSE IF IsNum(x) THEN NumMul(x, x)
           ELSE Raise("TypeError", "unsupported operand type(s) for ** or pow()")
           : x \in {a} })

Min(a, b) == IF a < b THEN a ELSE b

\* zip(xs, ys): stops at the shorter sequence
Zip(xs, ys) == [i \in 1..Min(Len(xs), Len(ys)) |-> <<xs[i], ys[i]>>]

\* a comprehension whose element evaluation raised: the first exception
\* leaves the comprehension; otherwise the elements
HasErr(xs) == \E i \in 1..Len(xs) : IsErr(xs[i])
FirstErr(xs) == xs[CHOOSE i \in 1..Len(xs) :
                      IsErr(xs[i]) /\ \A j \in 1..(i - 1) : ~IsErr(xs[j])]

\* sum(xs): 0 + xs[1] + xs[2] + ...
RECURSIVE SumFrom(_, _, _)
SumFrom(acc, xs, i) ==
    IF i > Len(xs) THEN acc ELSE SumFrom(PyAdd(acc, xs[i]), xs, i + 1)

Sum(elements) ==
    Only({ IF HasErr(xs) THEN FirstErr(xs) ELSE SumFrom(IntVal(0), xs, 1)
           : xs \in {elements} })

\* ------------------------------------------------------------------ Vector
\* an argument of the constructor: a list, a tuple, or a one-shot iterator
Iterable(type, items) == [type |-> type, items |-> items]

\* truth value of the argument: empty lists and tuples are false, an
\* iterator or generator object is always true
Truthy(it) == it.type = "generator" \/ it.items # <<>>

\* Vector(coordinates)
__init__(coordinates) ==
    IF ~Truthy(coordinates)
    THEN Raise("ValueError", "The coordinates must be nonempty")
    ELSE Returns("vector", [coordinates |-> coordinates.items,
                            dimension |-> Len(coordinates.items)])

\* Vector(tuple(<generator expression>)): an exception raised while the
\* elements are computed leaves before the constructor is entered
FromElements(type, elements) ==
    Only({ IF HasErr(xs) THEN FirstErr(xs) ELSE __init__(Iterable(type, xs))
           : xs \in {elements} })

__add__(s, w) ==
    Only({ FromElements("tuple", [i \in DOMAIN z |-> PyAdd(z[i][1], z[i][2])])
           : z \in {Zip(s.coordinates, w.coordinates)} })

__sub__(s, w) ==
    Only({ FromElements("tuple", [i \in DOMAIN z |-> PySub(z[i][1], z[i][2])])
           : z \in {Zip(s.coordinates, w.coordinates)} })

__mul__(s, times) ==
    FromElements("tuple", [i \in DOMAIN s.coordinates |->
                               PyMul(s.coordinates[i], times)])

magnitude(s) ==
    Only({ IF IsErr(total) THEN total ELSE Returns("scalar", NumSqrt(total))
           : total \in {Sum([i \in DOMAIN s.coordinates |->
                                PySquare(s.coordinates[i])])} })

\* the variant that passes the ZeroDivisionError's own text on
normalized_rawmsg(s) ==
    Only({ IF IsErr(m) THEN m
           ELSE IF IsZeroNum(m.val)
                THEN Raise("Exception", "float division by zero")
           ELSE __mul__(s, NumInv(m.val))
           : m \in {magnitude(s)} })

normalized(s) ==
    Only({ IF IsErr(m) THEN m
           ELSE IF IsZeroNum(m.val)
                THEN Raise("Exception", "Cannot normalize the zero vector")
           ELSE __mul__(s, NumInv(m.val))
           : m \in {magnitude(s)} })

\* [x * y for x, y in zip(...)]
Products(z) == [i \in DOMAIN z |-> PyMul(z[i][1], z[i][2])]

dot(s, w) ==
    Only({ IF IsErr(total) THEN total ELSE Returns("scalar", total)
           : total \in {Sum(Only({ Products(z)
                                   : z \in {Zip(s.coordinates, w.coordinates)} }))} })

\* math.acos(x).  An exact argument gives acos of its value.  An inexact one
\* whose real value is +-1 has been rounded by the float arithmetic onto the
\* boundary ("exact"), inside it ("below") or outside it ("above"), where
\* acos raises.  An angle is kept as the cosine it was taken from, off telling
\* whether the argument lay strictly inside the boundary it stands for.
Roundings == {"exact", "below", "above"}

acos(x, rnd) ==
    IF AbsAboveOne(x) THEN Raise("ValueError", "math domain error")
    ELSE IF AbsIsOne(x) /\ ~x.ex /\ rnd = "above"
         THEN Raise("ValueError", "math domain error")
    ELSE Returns("scalar",
                 [kind |-> "angle", cos |-> x, deg |-> FALSE,
                  off |-> AbsIsOne(x) /\ ~x.ex /\ rnd = "below"])

\* angle == 0 and angle == pi, for an angle in radians
AngleIsZero(a) == ~a.off /\ ~a.deg /\ a.cos.n = a.cos.d /\ a.cos.r = 1
AngleIsPi(a) == ~a.off /\ ~a.deg /\ a.cos.n = -a.cos.d /\ a.cos.r = 1

\* except Exception as e: re-label the message `from` as `to`, re-raise the rest
Relabel(e, from, to) ==
    IF e.msg = from THEN Raise("Exception", to) ELSE e

\* try: ... except Exception as e: around an outcome
Handled(outcome, from, to) ==
    Only({ IF IsErr(body) THEN Relabel(body, from, to) ELSE body
           : body \in {outcome} })

\* acos(unit1.dot(unit2)), in degrees if asked
AngleOf(unit1, unit2, in_degrees, rnd) ==
    Only({ IF IsErr(d) THEN d
           ELSE Only({ IF IsErr(a) THEN a
                       ELSE IF in_degrees
                            THEN Returns("scalar", [a.val EXCEPT !.deg = TRUE])
                       ELSE a
                       : a \in {acos(d.val, rnd)} })
           : d \in {dot(unit1, unit2)} })

angle_with(s, w, in_degrees, rnd) ==
    Handled(Only({ IF IsErr(unit1) THEN unit1
                   ELSE Only({ IF IsErr(unit2) THEN unit2
                               ELSE AngleOf(unit1.val, unit2.val, in_degrees, rnd)
                               : unit2 \in {normalized(w)} })
                   : unit1 \in {normalized(s)} }),
            CANNOT_NORMALIZE_ZERO_VECTOR_MSG,
            "Cannot compute an angle with the zero vector")

\* tolerance=1e-10
ToleranceDigits == 10

is_zero(s) ==
    Only({ IF IsErr(m) THEN m
           ELSE Returns("bool", LessThanPow10(m.val, ToleranceDigits))
           : m \in {magnitude(s)} })

is_orthogonal_to(s, w) ==
    Only({ IF IsErr(d) THEN d
           ELSE Returns("bool", LessThanPow10(NumAbs(d.val), ToleranceDigits))
           : d \in {dot(s, w)} })

\* self.angle_with(v) == 0 or self.angle_with(v) == pi: both calls give the
\* same float, or raise the same exception
AngleIsZeroOrPi(s, w, rnd) ==
    Only({ IF IsErr(a) THEN a
           ELSE Returns("bool", AngleIsZero(a.val) \/ AngleIsPi(a.val))
           : a \in {angle_with(s, w, FALSE, rnd)} })

\* the variant that evaluates the angle before the zero checks
is_parallel_to_eager(s, w, rnd) ==
    Only({ IF IsErr(a) THEN a
           ELSE IF IsErr(z1) THEN z1
           ELSE IF IsErr(z2) THEN z2
           ELSE Returns("bool", z1.val \/ z2.val \/ a.val)
           : z1 \in {is_zero(s)}, z2 \in {is_zero(w)},
             a \in {AngleIsZeroOrPi(s, w, rnd)} })

\* a or b or c or d, evaluated left to right and stopping at the first true
\* operand or the first exception
is_parallel_to(s, w, rnd) ==
    Only({ IF IsErr(z1) THEN z1
           ELSE IF z1.val THEN Returns("bool", TRUE)
           ELSE Only({ IF IsErr(z2) THEN z2
                       ELSE IF z2.val THEN Returns("bool", TRUE)
                       ELSE AngleIsZeroOrPi(s, w, rnd)
                       : z2 \in {is_zero(w)} })
           : z1 \in {is_zero(s)} })

\* the variant that projects on the basis without normalizing it
component_parallel_to_unnormalized(s, basis) ==
    Handled(Only({ IF IsErr(u) THEN u
                   ELSE Only({ IF IsErr(weight) THEN weight
                               ELSE __mul__(basis, weight.val)
                               : weight \in {dot(s, basis)} })
                   : u \in {normalized(basis)} }),
            CANNOT_NORMALIZE_ZERO_VECTOR_MSG, NO_UNIQUE_PARALLEL_COMPONENT_MSG)

component_parallel_to(s, basis) ==
    Handled(Only({ IF IsErr(u) THEN u
                   ELSE Only({ IF IsErr(weight) THEN weight
                               ELSE __mul__(u.val, weight.val)
                               : weight \in {dot(s, u.val)} })
                   : u \in {normalized(basis)} }),
            CANNOT_NORMALIZE_ZERO_VECTOR_MSG, NO_UNIQUE_PARALLEL_COMPONENT_MSG)

\* the variant whose handler re-raises without re-labelling
component_orthogonal_to_norelabel(s, basis) ==
    Only({ IF IsErr(projection) THEN projection
           ELSE __sub__(s, projection.val)
           : projection \in {component_parallel_to(s, basis)} })

component_orthogonal_to(s, basis) ==
    Handled(Only({ IF IsErr(projection) THEN projection
                   ELSE __sub__(s, projection.val)
                   : projection \in {component_parallel_to(s, basis)} }),
            NO_UNIQUE_PARALLEL_COMPONENT_MSG, NO_UNIQUE_ORTHOGONAL_COMPONENT_MSG)

\* ------------------------------------------------------------ cross product
\* the interpreters the module runs under; the text of the ValueError of a
\* failed tuple unpacking differs between them
PyVersions == {2, 3}

\* x, y, z = coordinates
Unpack3(coordinates, ver) ==
    IF Len(coordinates) = 3 THEN Returns("tuple", coordinates)
    ELSE IF Len(coordinates) > 3
         THEN Raise("ValueError",
                    IF ver = 2 THEN "too many values to unpack"
                    ELSE "too many values to unpack (expected 3)")
    ELSE Raise("ValueError",
               IF ver = 2
               THEN CASE Len(coordinates) = 0 -> "need more than 0 values to unpack"
                      [] Len(coordinates) = 1 -> "need more than 1 value to unpack"
                      [] Len(coordinates) = 2 -> "need more than 2 values to unpack"
               ELSE CASE Len(coordinates) = 0
                           -> "not enough values to unpack (expected 3, got 0)"
                      [] Len(coordinates) = 1
                           -> "not enough values to unpack (expected 3, got 1)"
                      [] Len(coordinates) = 2
                           -> "not enough values to unpack (expected 3, got 2)")

\* the string third coordinate the handler appends: ('0',)
EmbedCoordinate == Str(<<"0">>)

\* the variant that drops the sign of the middle component
new_coordinates_nosign(x_1, y_1, z_1, x_2, y_2, z_2) ==
    << PySub(PyMul(y_1, z_2), PyMul(y_2, z_1)),
       PySub(PyMul(x_1, z_2), PyMul(x_2, z_1)),
       PySub(PyMul(x_1, y_2), PyMul(x_2, y_1)) >>

\* the determinant formula of the 3-D cross product, a list display
\* evaluated left to right
new_coordinates(x_1, y_1, z_1, x_2, y_2, z_2) ==
    << PySub(PyMul(y_1, z_2), PyMul(y_2, z_1)),
       PyNeg(PySub(PyMul(x_1, z_2), PyMul(x_2, z_1))),
       PySub(PyMul(x_1, y_2), PyMul(x_2, y_1)) >>

\* the try block of cross: the two unpackings, then the new Vector
CrossBody(s, w, ver) ==
    Only({ IF IsErr(u1) THEN u1
           ELSE IF IsErr(u2) THEN u2
           ELSE FromElements("list",
                    new_coordinates(u1.val[1], u1.val[2], u1.val[3],
                                    u2.val[1], u2.val[2], u2.val[3]))
           : u1 \in {Unpack3(s.coordinates, ver)},
             u2 \in {Unpack3(w.coordinates, ver)} })

RECURSIVE cross(_, _, _)
cross(s, w, ver) ==
    Only({ IF IsErr(body) /\ body.type = "ValueError"
           THEN IF body.msg = "need more than 2 values to unpack"
                THEN Only({ cross(self_embedded_in_R3.val, v_embedded_in_R3.val, ver)
                            : self_embedded_in_R3 \in
                                  {__init__(Iterable("tuple",
                                       Append(s.coordinates, EmbedCoordinate)))},
                              v_embedded_in_R3 \in
                                  {__init__(Iterable("tuple",
                                       Append(w.coordinates, EmbedCoordinate)))} })
                ELSE IF body.msg = "too many values to unpack"
                        \/ body.msg = "need more than 1 value to unpack"
                     THEN Raise("Exception", ONLY_DEFINED_IN_TWO_THREE_DIMS_MSG)
                ELSE body
           ELSE body
           : body \in {CrossBody(s, w, ver)} })

area_of_parallelogram_with(s, w, ver) ==
    Only({ IF IsErr(cross_product) THEN cross_product
           ELSE magnitude(cross_product.val)
           : cross_product \in {cross(s, w, ver)} })

area_of_triangle_with(s, w, ver) ==
    Only({ IF IsErr(area) THEN area
           ELSE Returns("scalar", NumMul(area.val, MkNum(1, 2, 1, TRUE)))
           : area \in {area_of_parallelogram_with(s, w, ver)} })

\* ------------------------------------------------------------ state machine
\* self and v are the two Vector objects of a session (None until built),
\* result is the last call, its extra argument and its outcome.  The
\* interpreter is an input of the calls that depend on it: no call's outcome
\* depends on an earlier call, so a run under one interpreter reaches the
\* outcomes chosen here call by call.
None == [kind |-> "none"]

Coords == {IntVal(c) : c \in (-MaxWeight)..MaxWeight}
RECURSIVE Weight(_, _)
Weight(items, i) ==
    IF i > Len(items) THEN 0 ELSE Abs(items[i].n) + Weight(items, i + 1)
\* vectors of the documented examples, and some that are not axis-aligned
Examples == { <<1, 1>>, <<1, 2>>, <<2, 0>>, <<5, 0>>,
              <<1, 1, 1>>, <<-2, -2, -2>>, <<1, 2, 3>>, <<1, 0, 0, 0>> }
CoordSeqs ==
    {items \in UNION {[1..n -> Coords] : n \in 0..MaxDim} :
         Weight(items, 1) <= MaxWeight}
    \cup {[i \in DOMAIN e |-> IntVal(e[i])] : e \in Examples}
IterableTypes == {"list", "tuple", "generator"}
Iterables == {Iterable(t, items) : t \in IterableTypes, items \in CoordSeqs}
Scalars == {IntVal(-1), IntVal(0), IntVal(2), MkNum(1, 2, 1, TRUE)}

Call(op, arg, out) == [op |-> op, arg |-> arg, out |-> out]

\* no call is outstanding: the caller has taken the last result
Idle == result.op = "none"

Init ==
    /\ self = None
    /\ v = None
    /\ result = Call("none", None, None)

Construct_self ==
    /\ Idle
    /\ self = None
    /\ \E it \in Iterables :
          LET out == __init__(it)
          IN  /\ self' = IF IsErr(out) THEN self ELSE out.val
              /\ result' = Call("Vector", it, out)
    /\ UNCHANGED v

Construct_v ==
    /\ Idle
    /\ v = None
    /\ \E it \in Iterables :
          LET out == __init__(it)
          IN  /\ v' = IF IsErr(out) THEN v ELSE out.val
              /\ result' = Call("Vector", it, out)
    /\ UNCHANGED self

Built == Idle /\ self # None /\ v # None
\* a call that takes no argument is made on self before v is built (v has
\* no part in it)
Built1 == Idle /\ self # None /\ v = None

\* the caller drops the value or handles the exception, and goes on
Continue ==
    /\ ~Idle
    /\ result' = Call("none", None, None)
    /\ UNCHANGED <<self, v>>

\* the variant of __add__ that stores the sum in self (an in-place add)
Call_add_inplace ==
    /\ Built
    /\ LET out == __add__(self, v)
       IN  /\ result' = Call("__add__", None, out)
           /\ self' = IF IsErr(out) THEN self ELSE out.val
    /\ UNCHANGED v

Call_add ==
    /\ Built
    /\ result' = Call("__add__", None, __add__(self, v))
    /\ UNCHANGED <<self, v>>

Call_sub ==
    /\ Built
    /\ result' = Call("__sub__", None, __sub__(self, v))
    /\ UNCHANGED <<self, v>>

Call_mul ==
    /\ Built1
    /\ \E times \in Scalars : result' = Call("__mul__", times, __mul__(self, times))
    /\ UNCHANGED <<self, v>>

Call_magnitude ==
    /\ Built1
    /\ result' = Call("magnitude", None, magnitude(self))
    /\ UNCHANGED <<self, v>>

Call_normalized ==
    /\ Built1
    /\ result' = Call("normalized", None, normalized(self))
    /\ UNCHANGED <<self, v>>

Call_dot ==
    /\ Built
    /\ result' = Call("dot", None, dot(self, v))
    /\ UNCHANGED <<self, v>>

Call_angle_with ==
    /\ Built
    /\ \E in_degrees \in BOOLEAN, rnd \in Roundings :
          result' = Call("angle_with", in_degrees,
                         angle_with(self, v, in_degrees, rnd))
    /\ UNCHANGED <<self, v>>

Call_is_zero ==
    /\ Built1
    /\ result' = Call("is_zero", None, is_zero(self))
    /\ UNCHANGED <<self, v>>

Call_is_orthogonal_to ==
    /\ Built
    /\ result' = Call("is_orthogonal_to", None, is_orthogonal_to(self, v))
    /\ UNCHANGED <<self, v>>

Call_is_parallel_to ==
    /\ Built
    /\ \E rnd \in Roundings :
          result' = Call("is_parallel_to", None, is_parallel_to(self, v, rnd))
    /\ UNCHANGED <<self, v>>

Call_component_parallel_to ==
    /\ Built
    /\ result' = Call("component_parallel_to", None, component_parallel_to(self, v))
    /\ UNCHANGED <<self, v>>

Call_component_orthogonal_to ==
    /\ Built
    /\ result' = Call("component_orthogonal_to", None,
                      component_orthogonal_to(self, v))
    /\ UNCHANGED <<self, v>>

Call_cross ==
    /\ Built
    /\ \E ver \in PyVersions : result' = Call("cross", ver, cross(self, v, ver))
    /\ UNCHANGED <<self, v>>

Call_area_of_parallelogram_with ==
    /\ Built
    /\ \E ver \in PyVersions :
          result' = Call("area_of_parallelogram_with", ver,
                         area_of_parallelogram_with(self, v, ver))
    /\ UNCHANGED <<self, v>>

Call_area_of_triangle_with ==
    /\ Built
    /\ \E ver \in PyVersions :
          result' = Call("area_of_triangle_with", ver,
                         area_of_triangle_with(self, v, ver))
    /\ UNCHANGED <<self, v>>

Next ==
    \/ Construct_self
    \/ Construct_v
    \/ Call_add
    \/ Call_sub
    \/ Call_mul
    \/ Call_magnitude
    \/ Call_normalized
    \/ Call_dot
    \/ Call_angle_with
    \/ Call_is_zero
    \/ Call_is_orthogonal_to
    \/ Call_is_parallel_to
    \/ Call_component_parallel_to
    \/ Call_component_orthogonal_to
    \/ Call_cross
    \/ Call_area_of_parallelogram_with
    \/ Call_area_of_triangle_with
    \/ Continue

Spec == Init /\ [][Next]_vars

\* ------------------------------------------------------------- properties
Vec(ints) == [coordinates |-> [i \in DOMAIN ints |-> IntVal(ints[i])],
              dimension |-> Len(ints)]

\* all coordinates are 0 (the vector of no coordinates included)
IsZeroVector(s) == \A i \in DOMAIN s.coordinates : s.coordinates[i].n = 0

\* the real values of two coordinate sequences agree
SameCoordinates(xs, ys) ==
    /\ Len(xs) = Len(ys)
    /\ \A i \in DOMAIN xs : IsNum(xs[i]) /\ IsNum(ys[i]) /\ SameValue(xs[i], ys[i])

\* every number the calls produce has a normal form
NumbersRepresentable ==
    /\ result.out.kind = "scalar" /\ result.out.val.kind = "num"
          => result.out.val.d > 0
    /\ result.out.kind = "scalar" /\ result.out.val.kind = "angle"
          => result.out.val.cos.d > 0
    /\ result.out.kind = "vector"
          => \A i \in DOMAIN result.out.val.coordinates :
                 result.out.val.coordinates[i].d > 0

UnsupportedMsg == Raise("Exception", ONLY_DEFINED_IN_TWO_THREE_DIMS_MSG)
CrossOps == {"cross", "area_of_parallelogram_with", "area_of_triangle_with"}

\* C1: cross of two 2-dimensional vectors a, b does not fail and returns the
\* 3-dimensional vector (0, 0, a1*b2 - a2*b1).
C1_Cross2DEmbeds ==
    (result.op = "cross" /\ self.dimension = 2 /\ v.dimension = 2)
    => /\ result.out.kind = "vector"
       /\ result.out.val.dimension = 3
       /\ result.out.val.coordinates =
            << IntVal(0), IntVal(0),
               IntVal(self.coordinates[1].n * v.coordinates[2].n
                      - self.coordinates[2].n * v.coordinates[1].n) >>

\* C2: cross, area_of_parallelogram_with and area_of_triangle_with fail with
\* the "only two or three dimensional" error, and no other, whenever an
\* operand's dimension is not 2 or 3 or the operands are a 2-D/3-D pair.
UnsupportedDims ==
    \/ self.dimension \notin {2, 3}
    \/ v.dimension \notin {2, 3}
    \/ self.dimension # v.dimension

C2_UnsupportedDimension ==
    (result.op \in CrossOps /\ UnsupportedDims) => result.out = UnsupportedMsg

\* C3: constructing a Vector from an iterable that yields no elements (list,
\* tuple or one-shot iterator) fails with "The coordinates must be nonempty",
\* so no Vector of dimension 0 exists.
C3_EmptyIterableRejected ==
    /\ (result.op = "Vector" /\ result.arg.items = <<>>)
          => result.out = Raise("ValueError", "The coordinates must be nonempty")
    /\ self # None => self.dimension >= 1
    /\ v # None => v.dimension >= 1

\* C4: for 3-dimensional a and b, cross(a, b) is the 3-dimensional vector
\* (a2*b3 - a3*b2, -(a1*b3 - a3*b1), a1*b2 - a2*b1), and it equals
\* -1 * cross(b, a).
C4_Cross3D ==
    (result.op = "cross" /\ self.dimension = 3 /\ v.dimension = 3)
    => LET a == [i \in 1..3 |-> self.coordinates[i].n]
           b == [i \in 1..3 |-> v.coordinates[i].n]
           back == cross(v, self, result.arg)
       IN  /\ result.out.kind = "vector"
           /\ result.out.val = Vec(<< a[2] * b[3] - a[3] * b[2],
                                      -(a[1] * b[3] - a[3] * b[1]),
                                      a[1] * b[2] - a[2] * b[1] >>)
           /\ back.kind = "vector"
           /\ __mul__(back.val, IntVal(-1)).kind = "vector"
           /\ result.out.val.coordinates
                = __mul__(back.val, IntVal(-1)).val.coordinates

C4_Witness ==
    /\ result.op = "cross"
    /\ self = Vec(<<1, 0, 0>>)
    /\ v = Vec(<<0, 1, 0>>)
    /\ result.out.kind = "vector"
    /\ result.out.val = Vec(<<0, 0, 1>>)

\* C5: with a zero basis, component_parallel_to fails with "No unique
\* parallel component" and component_orthogonal_to with "No unique
\* orthogonal component", for every self; no inner error reaches the caller.
C5_ZeroBasisRelabelled ==
    /\ (result.op = "component_parallel_to" /\ IsZeroVector(v))
          => result.out = Raise("Exception", NO_UNIQUE_PARALLEL_COMPONENT_MSG)
    /\ (result.op = "component_orthogonal_to" /\ IsZeroVector(v))
          => result.out = Raise("Exception", NO_UNIQUE_ORTHOGONAL_COMPONENT_MSG)

C5_Witness ==
    /\ result.op = "component_orthogonal_to"
    /\ v.dimension = 2 /\ IsZeroVector(v)
    /\ self.dimension = 2 /\ ~IsZeroVector(self)
    /\ result.out = Raise("Exception", NO_UNIQUE_ORTHOGONAL_COMPONENT_MSG)

\* C6: angle_with fails with "Cannot compute an angle with the zero vector"
\* exactly when self or v is the zero vector.
AngleZeroMsg == Raise("Exception", "Cannot compute an angle with the zero vector")

C6_AngleZeroVector ==
    result.op = "angle_with"
    => ((result.out = AngleZeroMsg) <=> (IsZeroVector(self) \/ IsZeroVector(v)))

C6_Witness ==
    /\ result.op = "angle_with"
    /\ ~IsZeroVector(self)
    /\ v.dimension = 3 /\ IsZeroVector(v)
    /\ result.out = AngleZeroMsg

\* C7: for a non-zero basis of the dimension of self, the parallel and the
\* orthogonal component add up to self, the parallel component is a scalar
\* multiple of the basis and the orthogonal component has dot product 0 with
\* the basis (in the real values of the results).
C7_Decomposition ==
    (/\ result.op = "component_orthogonal_to"
     /\ self.dimension = v.dimension
     /\ ~IsZeroVector(v))
    => LET par  == component_parallel_to(self, v)
           orth == result.out
           sum  == __add__(par.val, orth.val)
           d    == dot(orth.val, v)
       IN  /\ par.kind = "vector" /\ orth.kind = "vector"
           /\ sum.kind = "vector"
           /\ SameCoordinates(sum.val.coordinates, self.coordinates)
           /\ \A i, j \in 1..v.dimension :
                 SameValue(NumMul(par.val.coordinates[i], v.coordinates[j]),
                           NumMul(par.val.coordinates[j], v.coordinates[i]))
           /\ d.kind = "scalar" /\ IsZeroNum(d.val)

C7_Witness ==
    /\ result.op = "component_orthogonal_to"
    /\ self = Vec(<<1, 0>>)
    /\ v = Vec(<<1, 1>>)
    /\ result.out.kind = "vector"
    /\ SameCoordinates(result.out.val.coordinates,
                       << MkNum(1, 2, 1, FALSE), MkNum(-1, 2, 1, FALSE) >>)

\* C8: no call changes the coordinates or the dimension of a Vector that
\* has been constructed, whether the call returns or raises.
C8_Immutable ==
    [][/\ self # None => self' = self
       /\ v # None => v' = v]_vars

C8_Witness ==
    /\ result.op = "__add__"
    /\ result.out.kind = "vector"
    /\ result.out.val # self
    /\ result.out.val # v

\* C9: for vectors of dimensions m and n, __add__, __sub__ and dot never
\* fail: the sum and the difference have dimension min(m, n) and hold the
\* element-wise results, dot is the sum of the first min(m, n) products.
C9_Truncation ==
    LET k == Min(self.dimension, v.dimension)
    IN  /\ result.op = "__add__"
           => /\ result.out.kind = "vector"
              /\ result.out.val = Vec([i \in 1..k |->
                     self.coordinates[i].n + v.coordinates[i].n])
        /\ result.op = "__sub__"
           => /\ result.out.kind = "vector"
              /\ result.out.val = Vec([i \in 1..k |->
                     self.coordinates[i].n - v.coordinates[i].n])
        /\ result.op = "dot"
           => /\ result.out.kind = "scalar"
              /\ result.out.val = Sum([i \in 1..k |->
                     IntVal(self.coordinates[i].n * v.coordinates[i].n)])

\* C10: is_parallel_to returns True, without raising, whenever self or v is
\* zero; when neither is, it returns True iff angle_with(self, v) is exactly
\* 0 or exactly pi (and raises what angle_with raises).  (1,0) against (0,1)
\* is False; (2,0) against (5,0) is True, the floats 2*(1./2) and 5*(1./5)
\* both being 1.0.
C10_Parallel ==
    /\ result.op = "is_parallel_to"
       => IF IsZeroVector(self) \/ IsZeroVector(v)
          THEN result.out = Returns("bool", TRUE)
          ELSE \E rnd \in Roundings :
                  LET a == angle_with(self, v, FALSE, rnd)
                  IN  IF IsErr(a) THEN result.out = a
                      ELSE result.out =
                             Returns("bool", AngleIsZero(a.val) \/ AngleIsPi(a.val))
    /\ (result.op = "is_parallel_to" /\ self = Vec(<<1, 0>>) /\ v = Vec(<<0, 1>>))
       => result.out = Returns("bool", FALSE)
    /\ (result.op = "is_parallel_to" /\ self = Vec(<<2, 0>>) /\ v = Vec(<<5, 0>>))
       => is_parallel_to(self, v, "exact") = Returns("bool", TRUE)

C10_Witness ==
    /\ result.op = "is_parallel_to"
    /\ IsZeroVector(self) /\ self.dimension = 2
    /\ ~IsZeroVector(v)
    /\ result.out = Returns("bool", TRUE)

====
